---- MODULE Spec2Model ----
(***************************************************************************)
(* EventFlow: OAuth state round trip, credential store and platform        *)
(* adapters, modelled from the TypeScript sources.                         *)
(*                                                                         *)
(* Time is counted in minutes.  Strings that the code only compares are    *)
(* TLA+ strings; token strings that the cipher splits at ':' are modelled  *)
(* as the sequence of their ':'-separated segments.                        *)
(***************************************************************************)
EXTENDS Integers, Sequences, FiniteSets, TLC

\* ------------------------------------------------------------------ bounds
MaxTokens == 1
MaxTime == 16
MaxIV == 1
MaxSegments == 3
\* the longest text handed to escapeICS, characters
MaxText == 3

\* ------------------------------------------------------- program constants
\* 15 * 60 * 1000 ms, in minutes
STATE_TTL == 15
\* 60 * 24 * 60 * 60 * 1000 ms, in minutes
SIXTY_DAYS == 86400
\* 60 * 60 * 1000 ms, in minutes
ONE_HOUR == 60
IV_LENGTH == 12
TAG_LENGTH == 16

\* the clock is sampled just before, at and just after a state's expiry
TickSteps == {STATE_TTL, STATE_TTL + 1}
Orgs == {"orgA", "orgB"}
\* two requests can be in flight at once
Procs == {1, 2}
Tokens == 1..MaxTokens
\* a well-formed UUID that generateOAuthState never handed out
ForgedToken == MaxTokens + 1
\* the value of a missing JSON property / an omitted optional argument
UndefinedOrg == "undefined"
NoDate == 0 - 1

VARIABLES
    now,                \* Date.now(), minutes
    nextToken,          \* the next value crypto.randomUUID() returns
    oAuthState,         \* rows of the OAuthState table
    redirects,          \* history: the redirects the start routes issued
    proc,               \* the requests in flight (callbacks, parseOAuthState calls)
    acceptCount,        \* history: non-null returns of parseOAuthState, per token
    uses,               \* history: parseOAuthState calls per token (counted to 2)
    credVersion,        \* which revision of credentials-service is in use
    platformCredential, \* rows of the PlatformCredential table
    lastSave,           \* history: the last call on the store, if a saveCredentials
    sinceSave,          \* history: what happened to a pair's row since its last save
    lastGet,            \* history: the getCredentials that read the table as it is
    cipher,             \* a string on its way through encrypt and decrypt
    ics,                \* an event on its way through generateICS
    desc,               \* a description on its way through transformEvent
    env,                \* process.env: the OAuth client ids and secrets
    platformId,         \* the adapter instance: which platform it is for
    credentials,        \* the adapter's private credentials field
    connected,          \* history: a connect succeeded and no disconnect since
    pendingUpdate,      \* Zoom updateEvent between its PATCH and its follow-up GET
    last,               \* history: the adapter call that returned last
    rejected,           \* history: isConnected said false since the last connect
    firstTransform,     \* history: the first transformEvent call on the instance
    transformed         \* history: the transformEvent call, if it was the last call

adapterVars == <<platformId, credentials, connected, pendingUpdate, last,
                 rejected, firstTransform, transformed>>
\* the arguments and results of the pure functions
pureVars == <<cipher, ics, desc>>
storeVars == <<now, nextToken, oAuthState, redirects, proc, acceptCount, uses,
               credVersion, platformCredential, lastSave, sinceSave, lastGet,
               pureVars, env>>

vars == <<now, nextToken, oAuthState, redirects, proc, acceptCount, uses,
          credVersion, platformCredential, lastSave, sinceSave, lastGet, cipher,
          ics, desc, env, platformId, credentials, connected, pendingUpdate, last,
          rejected, firstTransform, transformed>>

\* ------------------------------------------------------------ token cipher
\* One ':'-separated segment of a string: `bytes` is the length of the
\* buffer Buffer.from(segment, 'base64') yields, `of` the plaintext a
\* ciphertext or tag segment was computed from.
Seg(kind, n, bytes, of) == [kind |-> kind, n |-> n, bytes |-> bytes, of |-> of]

\* an opaque token without ':' (one segment)
Text(n) == << Seg("text", n, 3, <<>>) >>

Undefined == <<>>

IVs == 1..MaxIV

\* variant: the ciphertext is put between IV and tag as it is, not base64
\* encoded, so that it keeps every ':' of the plaintext
encryptRaw(plaintext, iv) ==
    << Seg("iv", iv, IV_LENGTH, <<>>) >>
        \o [i \in 1..Len(plaintext) |-> Seg("ct", iv, plaintext[i].bytes, plaintext)]
        \o << Seg("tag", iv, TAG_LENGTH, plaintext) >>

\* iv:ciphertext:authTag, each base64
encrypt(plaintext, iv) ==
    << Seg("iv", iv, IV_LENGTH, <<>>),
       Seg("ct", iv, Len(plaintext), plaintext),
       Seg("tag", iv, TAG_LENGTH, plaintext) >>

isEncrypted(value) ==
    /\ Len(value) = 3
    /\ value[1].bytes = IV_LENGTH
    /\ value[3].bytes = TAG_LENGTH

\* decrypt(encrypted): the plaintext, or an exception (wrong number of
\* segments, wrong IV or tag length, or the GCM tag does not match)
decrypt(value) ==
    IF Len(value) # 3 THEN [threw |-> TRUE, text |-> Undefined]
    ELSE IF value[1].bytes # IV_LENGTH THEN [threw |-> TRUE, text |-> Undefined]
    ELSE IF value[3].bytes # TAG_LENGTH THEN [threw |-> TRUE, text |-> Undefined]
    ELSE IF ~( /\ value[2].kind = "ct" /\ value[3].kind = "tag"
               /\ value[2].n = value[1].n /\ value[3].n = value[1].n
               /\ value[3].of = value[2].of )
         THEN [threw |-> TRUE, text |-> Undefined]
    ELSE [threw |-> FALSE, text |-> value[2].of]

\* the strings handed to encrypt: up to MaxSegments ':'-separated segments,
\* each empty, a few characters, or base64 of 12 or of 16 bytes ("" is the
\* one empty segment, ":" two of them)
Segments == { Seg("text", 0, 0, <<>>), Seg("text", 1, 3, <<>>),
              Seg("text", 2, IV_LENGTH, <<>>), Seg("text", 3, TAG_LENGTH, <<>>) }
Strings == UNION {[1..k -> Segments] : k \in 1..MaxSegments}

NoCipher == [phase |-> "none", plaintext |-> Undefined, encrypted |-> Undefined,
             presented |-> Undefined, how |-> "",
             decrypted |-> [threw |-> FALSE, text |-> Undefined]]

\* What can be changed in an encrypted value before it is handed to decrypt.
\* Bytes of the ciphertext or of the tag differ; the last base64 character
\* of the tag segment differs only in the four bits that Buffer.from(x,
\* 'base64') drops (16 bytes are 21 characters and 2 more bits), so that the
\* decoded tag is the same; the IV or the tag is a byte short; a segment is
\* missing or one too many.
Tamperings == {"ciphertextBytes", "tagBytes", "tagEncoding", "ivShort", "tagShort",
               "segmentLost", "segmentAdded"}
Tamper(how, value) ==
    CASE how = "ciphertextBytes" -> [value EXCEPT ![2].n = 0]
      [] how = "tagBytes" -> [value EXCEPT ![3].n = 0]
      [] how = "tagEncoding" ->
            [value EXCEPT ![3] = [kind |-> @.kind, n |-> @.n, bytes |-> @.bytes,
                                  of |-> @.of, spareBits |-> 1]]
      [] how = "ivShort" -> [value EXCEPT ![1].bytes = IV_LENGTH - 1]
      [] how = "tagShort" -> [value EXCEPT ![3].bytes = TAG_LENGTH - 1]
      [] how = "segmentLost" -> SubSeq(value, 1, 2)
      [] OTHER -> value \o << Seg("text", 1, 3, <<>>) >>

\* ------------------------------------------------------- credential store
CredToken1 == Text(1)
CredToken2 == Text(2)
RefreshTok == Text(3)
\* a token that contains ':' ("abc:def")
ColonToken == << Seg("text", 4, 3, <<>>), Seg("text", 5, 3, <<>>) >>
\* a token of three segments whose first is base64 of 12 bytes and whose
\* third is base64 of 16 bytes, as a ciphertext's are
CipherLike == << Seg("text", 6, IV_LENGTH, <<>>), Seg("text", 7, 3, <<>>),
                 Seg("text", 8, TAG_LENGTH, <<>>) >>
\* the empty string: "".split(':') is [""]
EmptyString == << Seg("text", 0, 0, <<>>) >>

SaveInput(org, platform, accessToken, refreshToken, expiresAt, userId, pageId, metadata) ==
    [organizationId |-> org, platform |-> platform, accessToken |-> accessToken,
     refreshToken |-> refreshToken, expiresAt |-> expiresAt,
     platformUserId |-> userId, platformPageId |-> pageId, metadata |-> metadata]

RowsOf(table, org, platform) ==
    {r \in table : r.organizationId = org /\ r.platform = platform}

\* variant: an update leaves isValid and lastValidated as they are stored
PrismaUpsertKeepsValidity(table, data, t) ==
    LET existing == RowsOf(table, data.organizationId, data.platform)
        createRow == [organizationId |-> data.organizationId,
                      platform |-> data.platform,
                      accessToken |-> data.accessToken,
                      refreshToken |-> data.refreshToken,
                      expiresAt |-> data.expiresAt,
                      platformUserId |-> data.platformUserId,
                      platformPageId |-> data.platformPageId,
                      metadata |-> data.metadata,
                      isValid |-> TRUE,
                      lastValidated |-> t]
        updateRow(r) == [r EXCEPT
                      !.accessToken = data.accessToken,
                      !.refreshToken = IF data.refreshToken = Undefined THEN @ ELSE data.refreshToken,
                      !.expiresAt = IF data.expiresAt = NoDate THEN @ ELSE data.expiresAt,
                      !.platformUserId = IF data.platformUserId = "" THEN @ ELSE data.platformUserId,
                      !.platformPageId = IF data.platformPageId = "" THEN @ ELSE data.platformPageId,
                      !.metadata = data.metadata]
    IN  IF data.organizationId = UndefinedOrg
        THEN [table |-> table, threw |-> TRUE]
        ELSE IF existing = {}
        THEN [table |-> table \cup {createRow}, threw |-> FALSE]
        ELSE [table |-> (table \ existing) \cup {updateRow(r) : r \in existing},
              threw |-> FALSE]

\* prisma.platformCredential.upsert: the row of the unique key is updated,
\* a field whose update value is undefined keeps its stored value; with no
\* such row the create data is inserted.  An undefined key component is a
\* validation error.
PrismaUpsert(table, data, t) ==
    LET existing == RowsOf(table, data.organizationId, data.platform)
        createRow == [organizationId |-> data.organizationId,
                      platform |-> data.platform,
                      accessToken |-> data.accessToken,
                      refreshToken |-> data.refreshToken,
                      expiresAt |-> data.expiresAt,
                      platformUserId |-> data.platformUserId,
                      platformPageId |-> data.platformPageId,
                      metadata |-> data.metadata,
                      isValid |-> TRUE,
                      lastValidated |-> t]
        updateRow(r) == [r EXCEPT
                      !.accessToken = data.accessToken,
                      !.refreshToken = IF data.refreshToken = Undefined THEN @ ELSE data.refreshToken,
                      !.expiresAt = IF data.expiresAt = NoDate THEN @ ELSE data.expiresAt,
                      !.platformUserId = IF data.platformUserId = "" THEN @ ELSE data.platformUserId,
                      !.platformPageId = IF data.platformPageId = "" THEN @ ELSE data.platformPageId,
                      !.metadata = data.metadata,
                      !.isValid = TRUE,
                      !.lastValidated = t]
    IN  IF data.organizationId = UndefinedOrg
        THEN [table |-> table, threw |-> TRUE]
        ELSE IF existing = {}
        THEN [table |-> table \cup {createRow}, threw |-> FALSE]
        ELSE [table |-> (table \ existing) \cup {updateRow(r) : r \in existing},
              threw |-> FALSE]

\* metadata || {}
MetaOrEmpty(metadata) == IF metadata = "" THEN "{}" ELSE metadata

\* saveCredentials of the revision that encrypts (iv1, iv2: crypto.randomBytes)
saveCredentialsEncrypted(table, input, iv1, iv2, t) ==
    PrismaUpsert(table,
        [input EXCEPT !.accessToken = encrypt(input.accessToken, iv1),
                      !.refreshToken = IF input.refreshToken # Undefined
                                       THEN encrypt(input.refreshToken, iv2)
                                       ELSE Undefined,
                      !.metadata = MetaOrEmpty(input.metadata)], t)

\* saveCredentials of src/lib/platforms/credentials-service.ts
saveCredentialsPlain(table, input, t) ==
    PrismaUpsert(table, [input EXCEPT !.metadata = MetaOrEmpty(input.metadata)], t)

saveCredentials(version, table, input, iv1, iv2, t) ==
    IF version = "encrypting"
    THEN saveCredentialsEncrypted(table, input, iv1, iv2, t)
    ELSE saveCredentialsPlain(table, input, t)

\* variant: every stored token is decrypted, whatever its form
DecryptedAlways(value) ==
    IF value # Undefined
    THEN decrypt(value)
    ELSE [threw |-> FALSE, text |-> value]

\* isEncrypted(value) ? decrypt(value) : value, for a stored token (null and
\* the empty string are not decrypted): the token, or decrypt's exception
Decrypted(value) ==
    IF value # Undefined /\ isEncrypted(value)
    THEN decrypt(value)
    ELSE [threw |-> FALSE, text |-> value]

\* what getCredentials hands back for a stored row: the revision that
\* encrypts decrypts every token that isEncrypted, the other returns the row
ReadRow(version, r) ==
    IF version = "encrypting"
    THEN [r EXCEPT !.accessToken = Decrypted(r.accessToken).text,
                   !.refreshToken = Decrypted(r.refreshToken).text]
    ELSE r

\* getCredentials(organizationId, platform): findUnique, then ReadRow.
\* `value` is the set of rows returned (empty: null), `threw` that decrypt
\* threw and nothing was returned.
getCredentials(version, table, org, platform) ==
    LET rows == RowsOf(table, org, platform)
        threw == /\ version = "encrypting"
                 /\ \E r \in rows : \/ Decrypted(r.accessToken).threw
                                     \/ Decrypted(r.refreshToken).threw
    IN  [threw |-> threw,
         value |-> IF threw THEN {} ELSE {ReadRow(version, r) : r \in rows}]

\* invalidateCredentials: prisma update, throws when there is no such row
invalidateCredentials(table, org, platform) ==
    LET rows == RowsOf(table, org, platform)
    IN  (table \ rows) \cup {[r EXCEPT !.isValid = FALSE] : r \in rows}

\* deleteCredentials: prisma delete, throws when there is no such row
deleteCredentials(table, org, platform) ==
    table \ RowsOf(table, org, platform)

\* updateLastValidated: prisma update, throws when there is no such row
updateLastValidated(table, org, platform, t) ==
    LET rows == RowsOf(table, org, platform)
    IN  (table \ rows) \cup {[r EXCEPT !.lastValidated = t] : r \in rows}

\* the inputs of saveCredentials that are tried: for one pair every field
\* given (tokens that contain ':') and only the access token given, for a
\* second pair every field
SaveInputs ==
    { SaveInput("orgA", "FACEBOOK_EVENTS", ColonToken, CipherLike, SIXTY_DAYS,
                "user1", "page1", "meta1"),
      SaveInput("orgA", "FACEBOOK_EVENTS", CredToken2, Undefined, NoDate, "", "", ""),
      SaveInput("orgB", "FACEBOOK_EVENTS", CredToken1, RefreshTok, SIXTY_DAYS,
                "user1", "page1", "meta1") }
Pairs == {<<i.organizationId, i.platform>> : i \in SaveInputs}

\* history: the saveCredentials call that was the last call on the store
\* (`wasInvalid`: it found the row of its pair with isValid = false)
NoSave == [made |-> FALSE, input |-> SaveInput("", "", Undefined, Undefined, NoDate, "", "", ""),
           at |-> 0, wasInvalid |-> FALSE]

\* history: the getCredentials call made since the last change of the table
NoGet == [made |-> FALSE, pair |-> <<"", "">>, result |-> [threw |-> FALSE, value |-> {}]]

\* what can happen to a stored ciphertext outside the service: bytes of the
\* ciphertext change, the string loses its end, its last segment or
\* everything
Damages == {"ciphertextBytes", "truncated", "segmentLost", "emptied"}
Damage(how, value) ==
    CASE how = "ciphertextBytes" -> [value EXCEPT ![2].n = 0]
      [] how = "truncated" -> [value EXCEPT ![3].bytes = TAG_LENGTH - 1]
      [] how = "segmentLost" -> SubSeq(value, 1, 2)
      [] OTHER -> EmptyString

\* ------------------------------------------------------------ OAuth state
\* base64url(JSON.stringify({token, organizationId})) and what the callback
\* may receive instead: no state parameter, or a string that does not decode
\* to JSON (form "garbage", e.g. String(promise) = "[object Promise]").
Encode(token, org) == [form |-> "json", token |-> token, organizationId |-> org]
MissingState == [form |-> "missing", token |-> 0, organizationId |-> ""]
ObjectPromise == [form |-> "garbage", token |-> 0, organizationId |-> ""]

\* the states a client can present: any state handed out so far, with either
\* organization or none, a forged token, an object without token, a string
\* that is not JSON, or no state at all
StateParams ==
    {MissingState, ObjectPromise, Encode(ForgedToken, "orgA"), Encode(0, "orgA")}
    \cup {Encode(t, o) : t \in 1..(nextToken - 1), o \in Orgs \cup {""}}

NullResult == [kind |-> "null", organizationId |-> "", token |-> 0]
ValueResult(rec) == [kind |-> "value", organizationId |-> rec.organizationId,
                     token |-> rec.token]

\* the POST to the provider's token endpoint: its client_id and client_secret
NoRequest == [sent |-> FALSE, clientId |-> "", clientSecret |-> ""]

IdleProc == [kind |-> "idle", state |-> MissingState, ppc |-> "none",
             stateRecord |-> {}, result |-> NullResult, expiredAtCall |-> FALSE,
             afterAccept |-> FALSE, inTime |-> FALSE, reason |-> "", cpc |-> "none",
             organizationId |-> "", outcome |-> "", tokenRequest |-> NoRequest,
             afterFail |-> FALSE]

\* process.env: FACEBOOK_APP_ID / FACEBOOK_APP_SECRET, LINKEDIN_CLIENT_ID /
\* LINKEDIN_CLIENT_SECRET, ZOOM_CLIENT_ID / ZOOM_CLIENT_SECRET, each set or not
OAuthPlatforms == {"facebook", "linkedin", "zoom"}
Configured == [platform \in OAuthPlatforms |-> [id |-> TRUE, secret |-> TRUE]]
Envs == {[platform \in OAuthPlatforms |-> [id |-> i, secret |-> k]] :
             i \in BOOLEAN, k \in BOOLEAN}

\* getFacebookOAuthConfig / getLinkedInOAuthConfig / getZoomOAuthConfig:
\* process.env.X || ''
getOAuthConfig(platform) ==
    [clientId |-> IF env[platform].id THEN "clientId" ELSE "",
     clientSecret |-> IF env[platform].secret THEN "clientSecret" ELSE ""]

\* exchangeCodeForTokens(config, code): the request it sends
exchangeCodeForTokens(config) ==
    [sent |-> TRUE, clientId |-> config.clientId, clientSecret |-> config.clientSecret]

OAuthStateRow(token, org, platform, t) ==
    [token |-> token, organizationId |-> org, platform |-> platform,
     expiresAt |-> t + STATE_TTL]

\* --------------------------------------------------------------- adapters
Platforms == {"facebook", "linkedin", "zoom-meeting"}

\* this.credentials: null, or the access token and the account id
\* (pageId / organizationId / userId) that connect stored
NullCredentials == [accessToken |-> "", accountId |-> ""]
ConnectInputs == {[accessToken |-> a, accountId |-> i] : a \in {"", "tok"}, i \in {"", "acct"}}

\* What the remote service does with one request: fetch throws, or there is
\* a response with a status, a body and (LinkedIn) the x-restli-id header.
\* Body "full": a JSON object with the fields the code reads (id, name,
\* join_url; error.code = `code` in an error body); "empty": the JSON object
\* {}; "invalid": not JSON.
Statuses == {200, 204, 400, 404, 429, 500}
ErrorCodes == {4, 100}
NoAnswer == [kind |-> "none", status |-> 0, body |-> "", code |-> 0, restliId |-> FALSE]
FetchThrows == [NoAnswer EXCEPT !.kind = "throws"]
Response(status, body, code, restliId) ==
    [kind |-> "response", status |-> status, body |-> body, code |-> code,
     restliId |-> restliId]
Answers ==
    {FetchThrows}
    \cup {Response(st, b, 0, h) : st \in Statuses, b \in {"full", "empty", "invalid"},
                                   h \in BOOLEAN}
    \cup {Response(st, "full", c, FALSE) : st \in Statuses, c \in ErrorCodes}

\* response.ok
ok(answer) == answer.status >= 200 /\ answer.status <= 299

\* FacebookAdapter.isRetryableError(errorData.error?.code)
isRetryableErrorFacebook(errorCode) == errorCode \in {4, 17, 341, 1, 2}

\* LinkedInAdapter.isRetryableError / ZoomAdapter.isRetryableError(response.status)
isRetryableErrorStatus(statusCode) ==
    \/ statusCode = 429
    \/ statusCode >= 500 /\ statusCode < 600

\* the outcome of a call: a PublicationResult / ConnectionResult / boolean,
\* or an exception that left the method; `requests` counts the fetch calls
Returned(success, code, retryable, requests) ==
    [threw |-> FALSE, success |-> success, code |-> code, retryable |-> retryable,
     requests |-> requests]
Threw(code, requests) ==
    [threw |-> TRUE, success |-> FALSE, code |-> code, retryable |-> FALSE,
     requests |-> requests]
NetworkError == Returned(FALSE, "NETWORK_ERROR", TRUE, 1)
NotConnected == Returned(FALSE, "NOT_CONNECTED", FALSE, 0)

\* the `!response.ok` branch of createEvent / updateEvent: the error body is
\* parsed (a body that is not JSON throws into the catch), the code is
\* <PREFIX>_<code or UNKNOWN>, retryable comes from isRetryableError
ErrorResult(platform, answer) ==
    IF answer.body = "invalid" THEN NetworkError
    ELSE IF platform = "facebook"
    THEN Returned(FALSE, "FB_", isRetryableErrorFacebook(answer.code), 1)
    ELSE Returned(FALSE, IF platform = "linkedin" THEN "LI_" ELSE "ZOOM_",
                  isRetryableErrorStatus(answer.status), 1)

\* isConnected(): success is the boolean it returns
isConnected(platform, creds, answer) ==
    IF creds.accessToken = "" \/ creds.accountId = "" THEN Returned(FALSE, "", FALSE, 0)
    ELSE IF answer.kind = "throws" THEN Returned(FALSE, "", FALSE, 1)
    ELSE IF platform = "facebook"
    THEN IF ~ok(answer) THEN Returned(FALSE, "", FALSE, 1)
         ELSE IF answer.body = "invalid" THEN Returned(FALSE, "", FALSE, 1)
         ELSE Returned(answer.body = "full", "", FALSE, 1)
    ELSE Returned(ok(answer), "", FALSE, 1)

\* variant: connect without its try/catch
connectNoCatch(platform, input, answer) ==
    IF input.accessToken = "" \/ input.accountId = "" THEN Returned(FALSE, "", FALSE, 0)
    ELSE IF answer.kind = "throws" THEN Threw("", 1)
    ELSE IF answer.body = "invalid" THEN Threw("", 1)
    ELSE Returned(ok(answer), "", FALSE, 1)

\* connect(credentials): the ConnectionResult; on success the caller stores
\* the credentials
connect(platform, input, answer) ==
    IF input.accessToken = "" \/ input.accountId = "" THEN Returned(FALSE, "", FALSE, 0)
    ELSE IF answer.kind = "throws" THEN Returned(FALSE, "", FALSE, 1)
    ELSE IF answer.body = "invalid" THEN Returned(FALSE, "", FALSE, 1)
    ELSE Returned(ok(answer), "", FALSE, 1)

\* variant: disconnect leaves the field as it is
disconnectKeepsCredentials(creds) == creds

\* disconnect(): this.credentials = null
disconnect(creds) == NullCredentials

\* createEvent(event)
createEvent(platform, creds, answer) ==
    IF creds = NullCredentials THEN NotConnected
    ELSE IF answer.kind = "throws" THEN NetworkError
    ELSE IF ~ok(answer) THEN ErrorResult(platform, answer)
    ELSE IF platform = "facebook"
    THEN IF answer.body = "invalid" THEN NetworkError ELSE Returned(TRUE, "", FALSE, 1)
    ELSE IF platform = "linkedin"
    THEN IF answer.restliId THEN Returned(TRUE, "", FALSE, 1)
         ELSE IF answer.body = "invalid" THEN NetworkError
         ELSE Returned(TRUE, "", FALSE, 1)
    \* Zoom: data.id.toString()
    ELSE IF answer.body = "full" THEN Returned(TRUE, "", FALSE, 1) ELSE NetworkError

\* updateEvent(externalId, event), up to the answer to its request; for
\* Zoom the PATCH, with success meaning that the follow-up GET comes next
updateEvent(platform, creds, answer) ==
    IF creds = NullCredentials THEN NotConnected
    ELSE IF answer.kind = "throws" THEN NetworkError
    ELSE IF ~ok(answer) THEN ErrorResult(platform, answer)
    ELSE Returned(TRUE, "", FALSE, 1)

\* Zoom updateEvent after a successful PATCH: reads this.credentials again
\* (null by now: TypeError, caught), GETs the meeting and parses the body
\* when that response is ok
updateEventInfo(creds, answer) ==
    IF creds = NullCredentials THEN Returned(FALSE, "NETWORK_ERROR", TRUE, 0)
    ELSE IF answer.kind = "throws" THEN NetworkError
    ELSE IF ok(answer) /\ answer.body = "invalid" THEN NetworkError
    ELSE Returned(TRUE, "", FALSE, 1)

\* the fields of the PublicationResult that a createEvent or updateEvent
\* call returns with `result` after the remote service's `answer`.  The
\* external id of a created event is read from the answer (Facebook data.id,
\* LinkedIn the x-restli-id header or else data.id, Zoom data.id), "undefined"
\* when the answer has none; an update echoes its externalId argument.
IdPrefix(platform) ==
    CASE platform = "facebook" -> "fb-"
      [] platform = "linkedin" -> "li-"
      [] platform = "zoom-meeting" -> "zoom-meeting-"
createdId(platform, answer) ==
    IF platform = "linkedin" /\ answer.restliId THEN "id1"
    ELSE IF answer.body = "full" THEN "id1"
    ELSE "undefined"
PublicationResult(platform, op, answer, result) ==
    LET externalId == IF op = "createEvent" THEN createdId(platform, answer) ELSE "ext1"
    IN  IF result.success
        THEN [success |-> TRUE,
              publicationId |-> <<IdPrefix(platform), externalId>>,
              externalId |-> externalId,
              externalUrl |-> IF externalId = "undefined" THEN "undefined" ELSE "url",
              error |-> {}]
        ELSE [success |-> FALSE,
              publicationId |-> IF op = "createEvent" \/ result.code = "NOT_CONNECTED"
                                THEN <<>> ELSE <<IdPrefix(platform), externalId>>,
              externalId |-> "undefined",
              externalUrl |-> "undefined",
              error |-> {"code", "message", "timestamp", "retryable"}]

\* deleteEvent(externalId): no try/catch
deleteEvent(platform, creds, answer) ==
    IF creds = NullCredentials THEN Threw("NOT_CONNECTED", 0)
    ELSE IF answer.kind = "throws" THEN Threw("", 1)
    ELSE IF ~ok(answer) THEN Threw("", 1)
    ELSE Returned(TRUE, "", FALSE, 1)

\* ---------------------------------------------------------- transformEvent
\* A title is the sequence of its UTF-16 code units: "c" a character of one
\* unit, "H" and "L" the high and the low surrogate of a character of two.
Pad(n) == [i \in 1..n |-> "c"]
Emoji == <<"H", "L">>
Ellipsis == <<".", ".", ".">>

\* PLATFORMS[platform].capabilities.maxTitleLength
maxTitleLength(platform) ==
    CASE platform = "facebook" -> 100
      [] platform = "linkedin" -> 200
      [] platform = "zoom-meeting" -> 200

\* BasePlatformAdapter.truncate: text.length and text.slice count code units
truncate(text, maxLength) ==
    IF Len(text) <= maxLength THEN text
    ELSE SubSeq(text, 1, maxLength - 3) \o Ellipsis

\* the canonical events handed to transformEvent: for a limit of n units a
\* title of exactly n, one of n + 1, and one longer than n in which a
\* two-unit character lies across the cut at n - 3
Titles(n) == { Pad(n), Pad(n + 1), Pad(n - 4) \o Emoji \o Pad(5) }
Event(title) == [id |-> "event1", title |-> title]
Events(platform) == {Event(t) : t \in Titles(maxTitleLength(platform))}

\* transformEvent(event): the title is truncated to the platform's limit;
\* metadata carries the event id and, for LinkedIn and Zoom, the account id
\* (organizationId / userId) of this.credentials, undefined when there are
\* none.  The remaining fields are copied from the event.
transformEvent(platform, creds, event) ==
    [platformId |-> platform,
     title |-> truncate(event.title, maxTitleLength(platform)),
     metadata |-> [eventId |-> event.id,
                   accountId |-> IF platform = "facebook" THEN "" ELSE creds.accountId]]

NoTransform == [made |-> FALSE, event |-> Event(<<>>),
                out |-> [platformId |-> "", title |-> <<>>,
                         metadata |-> [eventId |-> "", accountId |-> ""]]]

\* ------------------------------------------------- transformEvent: description
\* the adapters and PLATFORMS[platform].capabilities.maxDescriptionLength
Adapters == {"facebook", "linkedin", "zoom-meeting", "zoom-webinar", "local-calendar"}
maxDescriptionLength(platform) ==
    CASE platform = "facebook" -> 63206
      [] platform = "linkedin" -> 2000
      [] platform = "zoom-meeting" -> 2000
      [] platform = "zoom-webinar" -> 2000
      [] platform = "local-calendar" -> 10000

\* the units of text at the given positions, in their order
KeepAt(text, positions) ==
    LET marked == [i \in 1..Len(text) |-> <<i, text[i]>>]
        kept == SelectSeq(marked, LAMBDA m : m[1] \in positions)
    IN  [i \in 1..Len(kept) |-> kept[i][2]]

\* String.prototype.trim, the white space being blanks and newlines
WhiteSpace == {" ", "\n"}
trim(text) ==
    LET n == Len(text)
        lead == Cardinality({i \in 1..n : \A j \in 1..i : text[j] \in WhiteSpace})
        trail == Cardinality({i \in 1..n : \A j \in i..n : text[j] \in WhiteSpace})
    IN  IF lead = n THEN <<>> ELSE SubSeq(text, lead + 1, n - trail)

\* LinkedInAdapter.professionalizeDescription: of more than two emoji ("E",
\* one unit each) the first two stay, a run of three or more newlines
\* becomes two, and the result is trimmed
professionalizeDescription(description) ==
    LET emoji == {i \in 1..Len(description) : description[i] = "E"}
        fewer == IF Cardinality(emoji) > 2
                 THEN KeepAt(description,
                             {i \in 1..Len(description) :
                                 i \in emoji
                                     => Cardinality({j \in emoji : j <= i}) <= 2})
                 ELSE description
        spaced == KeepAt(fewer,
                         {i \in 1..Len(fewer) :
                             ~( /\ i > 2
                                /\ fewer[i] = "\n"
                                /\ fewer[i - 1] = "\n"
                                /\ fewer[i - 2] = "\n" )})
    IN  trim(spaced)

\* the description of transformEvent(event): Facebook, LinkedIn and Zoom
\* truncate it to the platform's limit (LinkedIn then professionalizes it),
\* the local calendar copies it
transformEventDescription(platform, description) ==
    IF platform = "local-calendar" THEN description
    ELSE LET cut == IF Len(description) > maxDescriptionLength(platform)
                    THEN truncate(description, maxDescriptionLength(platform))
                    ELSE description
         IN  IF platform = "linkedin" THEN professionalizeDescription(cut) ELSE cut

\* the descriptions handed to transformEvent: around a limit of n units, plain
\* or with emoji, a run of newlines or blanks at the ends
Descriptions(n) ==
    {front \o Pad(k) \o back :
        front \in {<<>>, <<"E", "E", "E">>, <<" ">>},
        k \in {n - 7, n - 6, n - 5},
        back \in {<<>>, <<"\n", "\n", "\n", "c">>, <<"c", "c", "c", "c", "c", "c", " ">>}}

NoDescription == [phase |-> "none", platform |-> "", description |-> <<>>, out |-> <<>>]

\* ------------------------------------------------------------ local export
\* A text handed to escapeICS is the sequence of its characters; the ones
\* that matter are the four the function replaces, the letter n and one
\* character it leaves alone.
ICSChars == {"\\", ";", ",", "\n", "n", "a"}
Texts == UNION {[1..k -> ICSChars] : k \in 0..MaxText}

\* String.prototype.replace with a global pattern of one character: every
\* occurrence of ch in text, left to right, becomes the characters of by
RECURSIVE replaceAll(_, _, _)
replaceAll(text, ch, by) ==
    IF text = <<>> THEN <<>>
    ELSE (IF Head(text) = ch THEN by ELSE <<Head(text)>>)
             \o replaceAll(Tail(text), ch, by)

\* variant: the backslash is escaped after the other three characters
escapeICSBackslashLast(text) ==
    replaceAll(
        replaceAll(
            replaceAll(
                replaceAll(text, ";", <<"\\", ";">>),
                ",", <<"\\", ",">>),
            "\n", <<"\\", "n">>),
        "\\", <<"\\", "\\">>)

\* escapeICS: four replace passes, each over the result of the one before
escapeICS(text) ==
    replaceAll(
        replaceAll(
            replaceAll(
                replaceAll(text, "\\", <<"\\", "\\">>),
                ";", <<"\\", ";">>),
            ",", <<"\\", ",">>),
        "\n", <<"\\", "n">>)

\* two-digit decimal of 0..31
TwoDigits(k) ==
    << "00", "01", "02", "03", "04", "05", "06", "07", "08", "09", "10",
       "11", "12", "13", "14", "15", "16", "17", "18", "19", "20", "21",
       "22", "23", "24", "25", "26", "27", "28", "29", "30", "31" >>[k + 1]

\* A Date is an instant: the number of whole hours since 2025-03-01T00:00Z.
\* Date.prototype.toISOString gives its UTC fields and a trailing Z.
toISOString(date) ==
    << "2025", "-", "03", "-", TwoDigits(1 + (date \div 24)), "T",
       TwoDigits(date % 24), ":", "00", ":", "00", ".000", "Z" >>

\* formatICSDate: toISOString() without its '-', ':' and milliseconds
formatICSDate(date) ==
    SelectSeq(toISOString(date), LAMBDA part : part \notin {"-", ":", ".000"})

\* the timezones of the events, with their offset from UTC in March, hours
Zones == {"UTC", "America/Los_Angeles", "Asia/Tokyo"}
utcOffset(zone) ==
    CASE zone = "UTC" -> 0
      [] zone = "America/Los_Angeles" -> 0 - 8
      [] zone = "Asia/Tokyo" -> 9
\* start times: 10:00 in Los Angeles on March 1st is 18:00Z
StartTimes == {18, 30, 47}

ICSEvents == {[title |-> t, startTime |-> d, timezone |-> z] :
                  t \in Texts, d \in StartTimes, z \in Zones}

\* the SUMMARY and DTSTART lines of generateICS(event)
generateICS(event) ==
    [summary |-> <<"SUMMARY:">> \o escapeICS(event.title),
     dtstart |-> <<"DTSTART;TZID=", event.timezone, ":">>
                     \o formatICSDate(event.startTime)]

NoICS == [phase |-> "none",
          event |-> [title |-> <<>>, startTime |-> 0, timezone |-> "UTC"],
          lines |-> [summary |-> <<>>, dtstart |-> <<>>]]

\* history record of a call
Call(op, answer, result, wasConnected) ==
    [op |-> op, answer |-> answer, result |-> result, wasConnected |-> wasConnected]
NoCall == Call("none", NoAnswer, Returned(FALSE, "", FALSE, 0), "never")

\* ------------------------------------------------------------------ Init
StoreInit ==
    /\ now = 0
    /\ nextToken = 1
    /\ oAuthState = {}
    /\ redirects = {}
    /\ proc = [p \in Procs |-> IdleProc]
    /\ acceptCount = [t \in Tokens |-> 0]
    /\ uses = [t \in Tokens |-> 0]
    /\ platformCredential = {}
    /\ lastSave = NoSave
    /\ sinceSave = [pair \in Pairs |-> {}]
    /\ lastGet = NoGet
    /\ cipher = NoCipher
    /\ ics = NoICS
    /\ desc = NoDescription

\* a freshly constructed adapter
AdapterInit ==
    /\ credentials = NullCredentials
    /\ connected = "never"
    /\ pendingUpdate = FALSE
    /\ last = NoCall
    /\ rejected = FALSE
    /\ firstTransform = NoTransform
    /\ transformed = NoTransform

\* the routes import src/lib/platforms/credentials-service.ts
Init ==
    /\ StoreInit
    /\ credVersion = "plain"
    /\ env = Configured
    /\ AdapterInit
    /\ platformId = "facebook"


\* history: no redirect that carried `state` is older than the 15 minutes
InTime(state) == \A r \in redirects : r.state = state => now <= r.at + STATE_TTL

\* --------------------------------------------------------- start routes
\* generateOAuthState(organizationId, platform), awaited: inserts the row
\* and returns the encoded state
generateOAuthState(org, platform) ==
    LET row == OAuthStateRow(nextToken, org, platform, now)
    IN  /\ nextToken <= MaxTokens
        /\ oAuthState' = oAuthState \cup {row}
        /\ nextToken' = nextToken + 1

\* history record of a redirect to the provider: `at` is its time, `persisted`
\* tells whether the OAuthState row for the state in the URL was in the table
\* by then
Redirect(platform, org, state) ==
    [platform |-> platform, organizationId |-> org, state |-> state, at |-> now,
     persisted |-> \E r \in oAuthState' :
                      /\ state.form = "json" /\ r.token = state.token
                      /\ r.organizationId = org /\ r.platform = platform]

\* GET /api/oauth/facebook?organizationId=org, by an OWNER/ADMIN of org
StartFacebook(org) ==
    /\ IF getOAuthConfig("facebook").clientId = ""
       THEN UNCHANGED <<nextToken, oAuthState, redirects>>     \* 500
       ELSE /\ generateOAuthState(org, "facebook")
            /\ redirects' = redirects
                   \cup {Redirect("facebook", org, Encode(nextToken, org))}
    /\ UNCHANGED <<now, proc, acceptCount, uses, credVersion, platformCredential>>
    /\ UNCHANGED <<adapterVars, lastSave, sinceSave, lastGet, pureVars, env>>

\* GET /api/oauth/linkedin?organizationId=org: generateOAuthState(org) is
\* called with no platform and is not awaited, so `state` is the promise and
\* String(state) goes into the URL; whether the insert with an undefined
\* platform is accepted depends on the schema (both outcomes are kept).
StartLinkedIn(org) ==
    /\ IF getOAuthConfig("linkedin").clientId = ""
       THEN UNCHANGED <<nextToken, oAuthState, redirects>>     \* 500
       ELSE /\ nextToken <= MaxTokens
            /\ nextToken' = nextToken + 1
            /\ \E inserted \in BOOLEAN :
                 LET row == OAuthStateRow(nextToken, org, "undefined", now)
                 IN  IF inserted
                     THEN oAuthState' = oAuthState \cup {row}
                     ELSE UNCHANGED oAuthState
            /\ redirects' = redirects \cup {Redirect("linkedin", org, ObjectPromise)}
    /\ UNCHANGED <<now, proc, acceptCount, uses, credVersion, platformCredential>>
    /\ UNCHANGED <<adapterVars, lastSave, sinceSave, lastGet, pureVars, env>>

\* ------------------------------------------------------- parseOAuthState
\* the synchronous head of parseOAuthState: decode, check token and
\* organizationId, issue findUnique
ParseHead(state) ==
    IF state.form # "json" THEN "done"                 \* JSON.parse throws
    ELSE IF state.token = 0 \/ state.organizationId = "" THEN "done"
    ELSE "find"

\* variant: no try/catch, the rejection leaves parseOAuthState
StorageFailedNoCatch(call) ==
    [call EXCEPT !.result = [NullResult EXCEPT !.kind = "threw"],
                 !.inTime = InTime(call.state),
                 !.reason = "storage", !.ppc = "done"]

\* what leaves parseOAuthState when a Prisma call rejects with a storage
\* error: the catch around the whole body returns null
StorageFailed(call) ==
    [call EXCEPT !.result = NullResult, !.inTime = InTime(call.state),
                 !.reason = "storage", !.ppc = "done"]

\* await prisma.oAuthState.findUnique({where: {token}})
ParseFind(p) ==
    /\ proc[p].ppc = "find"
    /\ LET found == {r \in oAuthState : r.token = proc[p].state.token}
       IN  proc' = [proc EXCEPT ![p].stateRecord = found,
                                ![p].inTime = IF found = {} THEN InTime(proc[p].state) ELSE @,
                                ![p].reason = IF found = {} THEN "notfound" ELSE @,
                                ![p].ppc = IF found = {} THEN "done" ELSE "delete"]
    /\ UNCHANGED <<now, nextToken, oAuthState, redirects, acceptCount, uses,
                   credVersion, platformCredential>>
    /\ UNCHANGED <<adapterVars, lastSave, sinceSave, lastGet, pureVars, env>>

\* variant: the record is read but never deleted
ParseDeleteKeepsRow(p) ==
    /\ proc[p].ppc = "delete"
    /\ proc' = [proc EXCEPT ![p].ppc = "check"]
    /\ UNCHANGED <<now, nextToken, oAuthState, redirects, acceptCount, uses,
                   credVersion, platformCredential>>
    /\ UNCHANGED <<adapterVars, lastSave, sinceSave, lastGet, pureVars, env>>

\* variant: deleteMany semantics, deleting an absent row is not an error
ParseDeleteSilent(p) ==
    /\ proc[p].ppc = "delete"
    /\ oAuthState' = {r \in oAuthState : r.token # proc[p].state.token}
    /\ proc' = [proc EXCEPT ![p].ppc = "check"]
    /\ UNCHANGED <<now, nextToken, redirects, acceptCount, uses,
                   credVersion, platformCredential>>
    /\ UNCHANGED <<adapterVars, lastSave, sinceSave, lastGet, pureVars, env>>

\* await prisma.oAuthState.delete({where: {token}}): throws when the row is
\* gone (caught: return null)
ParseDelete(p) ==
    /\ proc[p].ppc = "delete"
    /\ LET rows == {r \in oAuthState : r.token = proc[p].state.token}
       IN  /\ oAuthState' = oAuthState \ rows
           /\ proc' = [proc EXCEPT ![p].inTime = IF rows = {} THEN InTime(proc[p].state) ELSE @,
                                    ![p].reason = IF rows = {} THEN "deletefail" ELSE @,
                                    ![p].ppc = IF rows = {} THEN "done" ELSE "check"]
    /\ UNCHANGED <<now, nextToken, redirects, acceptCount, uses,
                   credVersion, platformCredential>>
    /\ UNCHANGED <<adapterVars, lastSave, sinceSave, lastGet, pureVars, env>>

\* the findUnique, or the delete, rejects with a storage error (the
\* database cannot be reached): nothing is read or deleted
ParseRejects(p) ==
    /\ proc[p].ppc \in {"find", "delete"}
    /\ proc' = [proc EXCEPT ![p] = StorageFailed(@)]
    /\ UNCHANGED <<now, nextToken, oAuthState, redirects, acceptCount, uses,
                   credVersion, platformCredential>>
    /\ UNCHANGED <<adapterVars, lastSave, sinceSave, lastGet, pureVars, env>>

\* variant: no expiry check
ParseResultNoExpiry(rec, state, t) ==
    IF rec.organizationId # state.organizationId THEN NullResult
    ELSE ValueResult(rec)

\* the checks on the record that was read, and the return value
ParseResult(rec, state, t) ==
    IF rec.expiresAt < t THEN NullResult
    ELSE IF rec.organizationId # state.organizationId THEN NullResult
    ELSE ValueResult(rec)

ParseCheck(p) ==
    /\ proc[p].ppc = "check"
    /\ \E rec \in proc[p].stateRecord :
         LET res == ParseResult(rec, proc[p].state, now)
         IN  /\ proc' = [proc EXCEPT ![p].result = res, ![p].inTime = InTime(proc[p].state),
                                      ![p].reason = IF res.kind = "value" THEN "ok"
                                                    ELSE IF rec.expiresAt < now THEN "expired"
                                                    ELSE "mismatch",
                                      ![p].ppc = "done"]
             /\ acceptCount' = IF res.kind = "value" /\ rec.token \in Tokens
                               THEN [acceptCount EXCEPT ![rec.token] = @ + 1]
                               ELSE acceptCount
    /\ UNCHANGED <<now, nextToken, oAuthState, redirects, uses,
                   credVersion, platformCredential>>
    /\ UNCHANGED <<adapterVars, lastSave, sinceSave, lastGet, pureVars, env>>

\* --------------------------------------------------------------- callbacks
Accepted == {t \in Tokens : acceptCount[t] > 0}

\* history: a parseOAuthState call of another request on the same state has
\* returned null
FailedBefore(p, state) ==
    \E q \in Procs \ {p} :
        /\ proc[q].ppc = "done"
        /\ proc[q].state = state
        /\ proc[q].result.kind = "null"

\* a request arrives: GET /api/oauth/<kind>/callback?code=..&state=..  by a
\* signed-in user, or a direct call of parseOAuthState (kind "direct")
Begin(p, kind, state) ==
    /\ proc[p].kind = "idle"
    /\ state \in StateParams
    /\ kind = "direct" => state.form # "missing"
    /\ LET head == IF state.form = "missing" THEN "none" ELSE ParseHead(state)
           call == [IdleProc EXCEPT !.kind = kind, !.state = state, !.ppc = head,
                                    !.expiredAtCall =
                                        (\E r \in oAuthState :
                                            /\ state.form = "json"
                                            /\ r.token = state.token
                                            /\ r.expiresAt < now),
                                    !.afterAccept = (state.form = "json"
                                                     /\ state.token \in Accepted),
                                    !.afterFail = FailedBefore(p, state),
                                    !.inTime = IF head = "done" THEN InTime(state) ELSE FALSE,
                                    !.reason = IF head = "done" THEN "malformed" ELSE ""]
       IN  proc' = [proc EXCEPT ![p] =
             IF state.form = "missing"
             THEN [call EXCEPT !.cpc = "done", !.outcome = "missing_params"]
             ELSE IF kind = "direct" THEN call
             ELSE IF kind = "facebook"
             \* const stateData = parseOAuthState(state): a promise, never
             \* falsy, and it has no organizationId property
             THEN [call EXCEPT !.cpc = "membership", !.organizationId = UndefinedOrg]
             ELSE [call EXCEPT !.cpc = "awaitParse"]]
    /\ uses' = IF state.form = "json" /\ state.token \in Tokens
               THEN [uses EXCEPT ![state.token] = IF @ < 2 THEN @ + 1 ELSE @]
               ELSE uses
    /\ UNCHANGED <<now, nextToken, oAuthState, redirects, acceptCount,
                   credVersion, platformCredential>>
    /\ UNCHANGED <<adapterVars, lastSave, sinceSave, lastGet, pureVars, env>>

\* const stateData = await parseOAuthState(state); if (!stateData) redirect
AfterParse(p) ==
    /\ proc[p].cpc = "awaitParse"
    /\ proc[p].ppc = "done"
    /\ proc' = [proc EXCEPT ![p] =
         IF proc[p].result.kind = "null"
         THEN [@ EXCEPT !.cpc = "done", !.outcome = "invalid_state"]
         ELSE [@ EXCEPT !.cpc = "membership",
                        !.organizationId = proc[p].result.organizationId]]
    /\ UNCHANGED <<now, nextToken, oAuthState, redirects, acceptCount, uses,
                   credVersion, platformCredential>>
    /\ UNCHANGED <<adapterVars, lastSave, sinceSave, lastGet, pureVars, env>>

\* what the provider's token endpoint answered: refresh_token and
\* expires_in (minutes; 0: absent)
TokenResponses == {[refreshToken |-> Undefined, expiresIn |-> 0],
                   [refreshToken |-> RefreshTok, expiresIn |-> ONE_HOUR]}

\* the saveCredentials inputs of the three callbacks
FacebookSave(org, t) ==
    SaveInput(org, "FACEBOOK_EVENTS", CredToken1, Undefined, t + SIXTY_DAYS,
              "", "page1", "meta1")
LinkedInSave(org, tokens, t) ==
    SaveInput(org, "LINKEDIN_EVENTS", CredToken1, tokens.refreshToken,
              IF tokens.expiresIn # 0 THEN t + tokens.expiresIn ELSE t + SIXTY_DAYS,
              "user1", "", "meta1")
ZoomSave(org, platform, tokens, t) ==
    SaveInput(org, platform, CredToken1, tokens.refreshToken,
              IF tokens.expiresIn # 0 THEN t + tokens.expiresIn ELSE t + ONE_HOUR,
              "user1", "", "meta1")

\* the rest of a callback once the state check is behind it: membership
\* check, code exchange, provider lookups, saveCredentials, redirect
Finish(p) ==
    /\ proc[p].cpc = "membership"
    /\ \E member \in BOOLEAN, exchange \in {"ok", "throws", "empty"},
          tokens \in TokenResponses, iv1 \in IVs, iv2 \in IVs :
         LET org == proc[p].organizationId
             kind == proc[p].kind
             s1 == IF kind = "facebook"
                   THEN saveCredentials(credVersion, platformCredential,
                                        FacebookSave(org, now), iv1, iv2, now)
                   ELSE IF kind = "linkedin"
                   THEN saveCredentials(credVersion, platformCredential,
                                        LinkedInSave(org, tokens, now), iv1, iv2, now)
                   ELSE saveCredentials(credVersion, platformCredential,
                                        ZoomSave(org, "ZOOM_MEETING", tokens, now),
                                        iv1, iv2, now)
             s2 == IF kind = "zoom" /\ ~s1.threw
                   THEN saveCredentials(credVersion, s1.table,
                                        ZoomSave(org, "ZOOM_WEBINAR", tokens, now),
                                        iv1, iv2, now)
                   ELSE s1
             outcome == IF ~member THEN "not_authorized"
                        ELSE IF exchange = "throws" THEN "callback_failed"
                        ELSE IF exchange = "empty" /\ kind # "zoom" THEN "no_pages"
                        ELSE IF s2.threw THEN "callback_failed"
                        ELSE "success"
             saving == member /\ exchange # "throws"
                       /\ (exchange = "empty" => kind = "zoom")
         IN  /\ proc' = [proc EXCEPT ![p].cpc = "done", ![p].outcome = outcome,
                                      ![p].tokenRequest =
                                          IF member
                                          THEN exchangeCodeForTokens(getOAuthConfig(kind))
                                          ELSE NoRequest]
             /\ platformCredential' = IF saving THEN s2.table ELSE platformCredential
    /\ UNCHANGED <<now, nextToken, oAuthState, redirects, acceptCount, uses,
                   credVersion>>
    /\ UNCHANGED <<adapterVars, lastSave, sinceSave, lastGet, pureVars, env>>

\* the response is sent and the request forgotten
Reset(p) ==
    /\ proc[p].kind # "idle"
    /\ proc[p].ppc \in {"none", "done"}
    /\ proc[p].cpc \in {"none", "done"}
    /\ proc' = [proc EXCEPT ![p] = IdleProc]
    /\ UNCHANGED <<now, nextToken, oAuthState, redirects, acceptCount, uses,
                   credVersion, platformCredential>>
    /\ UNCHANGED <<adapterVars, lastSave, sinceSave, lastGet, pureVars, env>>

cleanupExpiredOAuthStates ==
    /\ oAuthState' = {r \in oAuthState : ~(r.expiresAt < now)}
    /\ UNCHANGED <<now, nextToken, redirects, proc, acceptCount, uses,
                   credVersion, platformCredential>>
    /\ UNCHANGED <<adapterVars, lastSave, sinceSave, lastGet, pureVars, env>>

Tick ==
    /\ \E d \in TickSteps : now + d <= MaxTime /\ now' = now + d
    /\ UNCHANGED <<nextToken, oAuthState, redirects, proc, acceptCount, uses,
                   credVersion, platformCredential>>
    /\ UNCHANGED <<adapterVars, lastSave, sinceSave, lastGet, pureVars, env>>

Next ==
    \/ \E org \in Orgs : StartFacebook(org)
    \/ \E org \in Orgs : StartLinkedIn(org)
    \/ \E p \in Procs, state \in StateParams : Begin(p, "direct", state)
    \/ \E p \in Procs : ParseFind(p)
    \/ \E p \in Procs : ParseDelete(p)
    \/ \E p \in Procs : ParseCheck(p)
    \/ \E p \in Procs : Reset(p)
    \/ cleanupExpiredOAuthStates
    \/ Tick

Spec == Init /\ [][Next]_vars

\* the callbacks of the three providers against the same tables, handled one
\* at a time (concurrent parseOAuthState calls are explored under Spec)
CallbackProcs == {1}

NextCallback ==
    \/ \E org \in Orgs : StartFacebook(org)
    \/ \E p \in CallbackProcs, kind \in {"facebook", "linkedin", "zoom"},
          state \in StateParams : Begin(p, kind, state)
    \/ \E p \in Procs : ParseFind(p)
    \/ \E p \in Procs : ParseDelete(p)
    \/ \E p \in Procs : ParseCheck(p)
    \/ \E p \in Procs : AfterParse(p)
    \/ \E p \in Procs : Finish(p)
    \/ \E p \in Procs : Reset(p)
    \/ Tick

SpecCallback == Init /\ [][NextCallback]_vars

\* the start routes and the callbacks under every setting of the client
\* ids and secrets
InitConfig ==
    /\ StoreInit
    /\ credVersion = "plain"
    /\ env \in Envs
    /\ AdapterInit
    /\ platformId = "facebook"

NextConfig ==
    \/ \E org \in Orgs : StartFacebook(org)
    \/ \E org \in Orgs : StartLinkedIn(org)
    \/ \E p \in CallbackProcs, kind \in {"facebook", "linkedin"},
          state \in StateParams : Begin(p, kind, state)
    \/ \E p \in Procs : ParseFind(p)
    \/ \E p \in Procs : ParseDelete(p)
    \/ \E p \in Procs : ParseCheck(p)
    \/ \E p \in Procs : AfterParse(p)
    \/ \E p \in Procs : Finish(p)
    \/ \E p \in Procs : Reset(p)

SpecConfig == InitConfig /\ [][NextConfig]_vars

\* parseOAuthState, one call at a time, against a database whose calls can
\* fail and whose expired rows the cleanup removes at any moment
NextParse ==
    \/ \E org \in Orgs : StartFacebook(org)
    \/ \E p \in CallbackProcs, state \in StateParams : Begin(p, "direct", state)
    \/ \E p \in Procs : ParseFind(p)
    \/ \E p \in Procs : ParseDelete(p)
    \/ \E p \in Procs : ParseRejects(p)
    \/ \E p \in Procs : ParseCheck(p)
    \/ \E p \in Procs : Reset(p)
    \/ cleanupExpiredOAuthStates
    \/ Tick

SpecParse == Init /\ [][NextParse]_vars

\* ------------------------------------------------------- adapter calls
\* calls on one adapter instance; each takes effect where the method reads
\* or writes this.credentials (connect: after its fetch; the others: before)
Sent(result, answer) == IF result.requests = 0 THEN NoAnswer ELSE answer

IsConnected ==
    /\ \E answer \in Answers :
         LET r == isConnected(platformId, credentials, answer)
         IN  /\ last' = Call("isConnected", Sent(r, answer), r, connected)
             /\ rejected' = (rejected \/ (credentials # NullCredentials /\ ~r.success))
    /\ transformed' = NoTransform
    /\ UNCHANGED <<platformId, credentials, connected, pendingUpdate, firstTransform>>
    /\ UNCHANGED storeVars

\* variant: the credentials are stored before they are validated
ConnectStoresFirst ==
    /\ \E input \in ConnectInputs, answer \in Answers :
         LET r == connect(platformId, input, answer)
             complete == input.accessToken # "" /\ input.accountId # ""
         IN  /\ credentials' = IF complete THEN input ELSE credentials
             /\ connected' = IF r.success THEN "connected" ELSE connected
             /\ last' = Call("connect", Sent(r, answer), r, connected)
             /\ rejected' = (rejected /\ ~r.success)
    /\ transformed' = NoTransform
    /\ UNCHANGED <<platformId, pendingUpdate, firstTransform>>
    /\ UNCHANGED storeVars

\* connect(credentials): this.credentials is assigned on the success path only
Connect ==
    /\ \E input \in ConnectInputs, answer \in Answers :
         LET r == connect(platformId, input, answer)
         IN  /\ credentials' = IF r.success THEN input ELSE credentials
             /\ connected' = IF r.success THEN "connected" ELSE connected
             /\ last' = Call("connect", Sent(r, answer), r, connected)
             /\ rejected' = (rejected /\ ~r.success)
    /\ transformed' = NoTransform
    /\ UNCHANGED <<platformId, pendingUpdate, firstTransform>>
    /\ UNCHANGED storeVars

Disconnect ==
    /\ credentials' = disconnect(credentials)
    /\ connected' = IF connected = "never" THEN "never" ELSE "disconnected"
    /\ last' = Call("disconnect", NoAnswer, Returned(TRUE, "", FALSE, 0), connected)
    /\ transformed' = NoTransform
    /\ UNCHANGED <<platformId, pendingUpdate, rejected, firstTransform>>
    /\ UNCHANGED storeVars

CreateEvent ==
    /\ \E answer \in Answers :
         LET r == createEvent(platformId, credentials, answer)
         IN  last' = Call("createEvent", Sent(r, answer), r, connected)
    /\ transformed' = NoTransform
    /\ UNCHANGED <<platformId, credentials, connected, pendingUpdate, rejected,
                   firstTransform>>
    /\ UNCHANGED storeVars

\* updateEvent; a Zoom update whose PATCH succeeded goes on to its GET
UpdateEvent ==
    /\ ~pendingUpdate
    /\ \E answer \in Answers :
         LET r == updateEvent(platformId, credentials, answer)
             more == platformId = "zoom-meeting" /\ r.success
         IN  /\ last' = Call(IF more THEN "updateEvent:patch" ELSE "updateEvent",
                             Sent(r, answer), r, connected)
             /\ pendingUpdate' = more
    /\ transformed' = NoTransform
    /\ UNCHANGED <<platformId, credentials, connected, rejected, firstTransform>>
    /\ UNCHANGED storeVars

UpdateEventInfo ==
    /\ pendingUpdate
    /\ \E answer \in Answers :
         LET r == updateEventInfo(credentials, answer)
         IN  last' = Call("updateEvent:info", Sent(r, answer), r, connected)
    /\ pendingUpdate' = FALSE
    /\ transformed' = NoTransform
    /\ UNCHANGED <<platformId, credentials, connected, rejected, firstTransform>>
    /\ UNCHANGED storeVars

DeleteEvent ==
    /\ \E answer \in Answers :
         LET r == deleteEvent(platformId, credentials, answer)
         IN  last' = Call("deleteEvent", Sent(r, answer), r, connected)
    /\ transformed' = NoTransform
    /\ UNCHANGED <<platformId, credentials, connected, pendingUpdate, rejected,
                   firstTransform>>
    /\ UNCHANGED storeVars

TransformEvent ==
    /\ \E event \in Events(platformId) :
         LET call == [made |-> TRUE, event |-> event,
                      out |-> transformEvent(platformId, credentials, event)]
         IN  /\ transformed' = call
             /\ firstTransform' = IF firstTransform.made THEN firstTransform ELSE call
    /\ UNCHANGED <<platformId, credentials, connected, pendingUpdate, last, rejected>>
    /\ UNCHANGED storeVars

InitAdapter ==
    /\ StoreInit
    /\ credVersion = "plain"
    /\ env = Configured
    /\ AdapterInit
    /\ platformId \in Platforms

NextAdapter ==
    \/ IsConnected
    \/ Connect
    \/ Disconnect
    \/ CreateEvent
    \/ UpdateEvent
    \/ UpdateEventInfo
    \/ DeleteEvent

SpecAdapter == InitAdapter /\ [][NextAdapter]_vars

\* transformEvent among the calls that change or use the credentials
NextTransform ==
    \/ Connect
    \/ Disconnect
    \/ CreateEvent
    \/ TransformEvent

SpecTransform == InitAdapter /\ [][NextTransform]_vars

\* ------------------------------------------------- credential store calls
Save ==
    /\ \E input \in SaveInputs, iv1 \in IVs, iv2 \in IVs :
         LET r == saveCredentials(credVersion, platformCredential, input, iv1, iv2, now)
             pair == <<input.organizationId, input.platform>>
         IN  /\ platformCredential' = r.table
             /\ lastSave' = [made |-> TRUE, input |-> input, at |-> now,
                             wasInvalid |-> \E row \in RowsOf(platformCredential,
                                                pair[1], pair[2]) : ~row.isValid]
             /\ sinceSave' = [sinceSave EXCEPT ![pair] = {}]
    /\ lastGet' = NoGet
    /\ UNCHANGED <<now, nextToken, oAuthState, redirects, proc, acceptCount, uses,
                   credVersion>>
    /\ UNCHANGED <<adapterVars, pureVars, env>>

Get ==
    /\ \E pair \in Pairs :
         lastGet' = [made |-> TRUE, pair |-> pair,
                     result |-> getCredentials(credVersion, platformCredential,
                                               pair[1], pair[2])]
    /\ UNCHANGED <<now, nextToken, oAuthState, redirects, proc, acceptCount, uses,
                   credVersion, platformCredential, lastSave, sinceSave>>
    /\ UNCHANGED <<adapterVars, pureVars, env>>

Invalidate ==
    /\ \E pair \in Pairs :
         /\ RowsOf(platformCredential, pair[1], pair[2]) # {}
         /\ platformCredential' = invalidateCredentials(platformCredential, pair[1], pair[2])
         /\ sinceSave' = [sinceSave EXCEPT ![pair] = @ \cup {"invalidated"}]
    /\ lastSave' = NoSave
    /\ lastGet' = NoGet
    /\ UNCHANGED <<now, nextToken, oAuthState, redirects, proc, acceptCount, uses,
                   credVersion>>
    /\ UNCHANGED <<adapterVars, pureVars, env>>

UpdateLastValidated ==
    /\ \E pair \in Pairs :
         /\ RowsOf(platformCredential, pair[1], pair[2]) # {}
         /\ platformCredential' = updateLastValidated(platformCredential, pair[1], pair[2], now)
    /\ lastSave' = NoSave
    /\ lastGet' = NoGet
    /\ UNCHANGED <<now, nextToken, oAuthState, redirects, proc, acceptCount, uses,
                   credVersion, sinceSave>>
    /\ UNCHANGED <<adapterVars, pureVars, env>>

Delete ==
    /\ \E pair \in Pairs :
         /\ RowsOf(platformCredential, pair[1], pair[2]) # {}
         /\ platformCredential' = deleteCredentials(platformCredential, pair[1], pair[2])
    /\ lastSave' = NoSave
    /\ lastGet' = NoGet
    /\ UNCHANGED <<now, nextToken, oAuthState, redirects, proc, acceptCount, uses,
                   credVersion, sinceSave>>
    /\ UNCHANGED <<adapterVars, pureVars, env>>

\* the stored accessToken ciphertext of a row is damaged in the database
\* (once per save)
Corrupt ==
    /\ \E r \in platformCredential, how \in Damages :
         LET pair == <<r.organizationId, r.platform>>
         IN  /\ pair \in Pairs
             /\ "altered" \notin sinceSave[pair]
             /\ r.accessToken[1].kind = "iv"
             /\ platformCredential' =
                    (platformCredential \ {r})
                        \cup {[r EXCEPT !.accessToken = Damage(how, @)]}
             /\ sinceSave' = [sinceSave EXCEPT ![pair] = @ \cup {"altered"}]
    /\ lastSave' = NoSave
    /\ lastGet' = NoGet
    /\ UNCHANGED <<now, nextToken, oAuthState, redirects, proc, acceptCount, uses,
                   credVersion>>
    /\ UNCHANGED <<adapterVars, pureVars, env>>

\* the revision that encrypts replaces the one that stored plaintext; the
\* rows written so far stay as they are
Deploy ==
    /\ credVersion = "plain"
    /\ credVersion' = "encrypting"
    /\ lastSave' = NoSave
    /\ lastGet' = NoGet
    /\ UNCHANGED <<now, nextToken, oAuthState, redirects, proc, acceptCount, uses,
                   platformCredential, sinceSave>>
    /\ UNCHANGED <<adapterVars, pureVars, env>>

\* either revision of the credentials service
InitCred ==
    /\ StoreInit
    /\ credVersion \in {"encrypting", "plain"}
    /\ env = Configured
    /\ AdapterInit
    /\ platformId = "facebook"

NextCred ==
    \/ Save
    \/ Get
    \/ Invalidate
    \/ UpdateLastValidated
    \/ Delete
    \/ Corrupt
    \/ Deploy
    \/ Tick

SpecCred == InitCred /\ [][NextCred]_vars

\* ------------------------------------------------------------ cipher calls
\* encrypted = encrypt(s), with the IV crypto.randomBytes returns
Encrypt ==
    /\ cipher.phase = "plaintext"
    /\ \E iv \in IVs :
         cipher' = [cipher EXCEPT !.phase = "encrypted",
                                  !.encrypted = encrypt(cipher.plaintext, iv),
                                  !.presented = encrypt(cipher.plaintext, iv)]
    /\ UNCHANGED <<now, nextToken, oAuthState, redirects, proc, acceptCount, uses,
                   credVersion, platformCredential, lastSave, sinceSave, lastGet>>
    /\ UNCHANGED <<adapterVars, ics, desc, env>>

\* the encrypted value is altered before it comes back
TamperEncrypted ==
    /\ cipher.phase = "encrypted"
    /\ cipher.how = ""
    /\ \E how \in Tamperings :
         cipher' = [cipher EXCEPT !.how = how,
                                  !.presented = Tamper(how, cipher.encrypted)]
    /\ UNCHANGED <<now, nextToken, oAuthState, redirects, proc, acceptCount, uses,
                   credVersion, platformCredential, lastSave, sinceSave, lastGet>>
    /\ UNCHANGED <<adapterVars, ics, desc, env>>

\* decrypt(presented)
Decrypt ==
    /\ cipher.phase = "encrypted"
    /\ cipher' = [cipher EXCEPT !.phase = "decrypted",
                                !.decrypted = decrypt(cipher.presented)]
    /\ UNCHANGED <<now, nextToken, oAuthState, redirects, proc, acceptCount, uses,
                   credVersion, platformCredential, lastSave, sinceSave, lastGet>>
    /\ UNCHANGED <<adapterVars, ics, desc, env>>

\* every string of Strings is the argument once
InitCipher ==
    /\ now = 0
    /\ nextToken = 1
    /\ oAuthState = {}
    /\ redirects = {}
    /\ proc = [p \in Procs |-> IdleProc]
    /\ acceptCount = [t \in Tokens |-> 0]
    /\ uses = [t \in Tokens |-> 0]
    /\ platformCredential = {}
    /\ lastSave = NoSave
    /\ sinceSave = [pair \in Pairs |-> {}]
    /\ lastGet = NoGet
    /\ cipher \in {[NoCipher EXCEPT !.phase = "plaintext", !.plaintext = s] : s \in Strings}
    /\ ics = NoICS
    /\ desc = NoDescription
    /\ credVersion = "encrypting"
    /\ env = Configured
    /\ AdapterInit
    /\ platformId = "facebook"

NextCipher ==
    \/ Encrypt
    \/ TamperEncrypted
    \/ Decrypt

SpecCipher == InitCipher /\ [][NextCipher]_vars

\* --------------------------------------------------- description transforms
\* out = transformEvent(event).description on the adapter of desc.platform
TransformDescription ==
    /\ desc.phase = "event"
    /\ desc' = [desc EXCEPT !.phase = "transformed",
                            !.out = transformEventDescription(desc.platform,
                                                              desc.description)]
    /\ UNCHANGED <<now, nextToken, oAuthState, redirects, proc, acceptCount, uses,
                   credVersion, platformCredential, lastSave, sinceSave, lastGet>>
    /\ UNCHANGED <<adapterVars, cipher, ics, env>>

\* every adapter with every description around its limit
InitDescription ==
    /\ now = 0
    /\ nextToken = 1
    /\ oAuthState = {}
    /\ redirects = {}
    /\ proc = [p \in Procs |-> IdleProc]
    /\ acceptCount = [t \in Tokens |-> 0]
    /\ uses = [t \in Tokens |-> 0]
    /\ platformCredential = {}
    /\ lastSave = NoSave
    /\ sinceSave = [pair \in Pairs |-> {}]
    /\ lastGet = NoGet
    /\ cipher = NoCipher
    /\ ics = NoICS
    /\ \E a \in Adapters :
         desc \in {[NoDescription EXCEPT !.phase = "event", !.platform = a,
                                         !.description = d] :
                       d \in Descriptions(maxDescriptionLength(a))}
    /\ credVersion = "encrypting"
    /\ env = Configured
    /\ AdapterInit
    /\ platformId = "facebook"

NextDescription == TransformDescription

SpecDescription == InitDescription /\ [][NextDescription]_vars

\* ------------------------------------------------------- local export calls
\* lines = generateICS(event)
GenerateICS ==
    /\ ics.phase = "event"
    /\ ics' = [ics EXCEPT !.phase = "generated", !.lines = generateICS(ics.event)]
    /\ UNCHANGED <<now, nextToken, oAuthState, redirects, proc, acceptCount, uses,
                   credVersion, platformCredential, lastSave, sinceSave, lastGet>>
    /\ UNCHANGED <<adapterVars, cipher, desc, env>>

\* every event of ICSEvents is the argument once
InitICS ==
    /\ now = 0
    /\ nextToken = 1
    /\ oAuthState = {}
    /\ redirects = {}
    /\ proc = [p \in Procs |-> IdleProc]
    /\ acceptCount = [t \in Tokens |-> 0]
    /\ uses = [t \in Tokens |-> 0]
    /\ platformCredential = {}
    /\ lastSave = NoSave
    /\ sinceSave = [pair \in Pairs |-> {}]
    /\ lastGet = NoGet
    /\ cipher = NoCipher
    /\ ics \in {[NoICS EXCEPT !.phase = "event", !.event = e] : e \in ICSEvents}
    /\ desc = NoDescription
    /\ credVersion = "encrypting"
    /\ env = Configured
    /\ AdapterInit
    /\ platformId = "facebook"

NextICS == GenerateICS

SpecICS == InitICS /\ [][NextICS]_vars

\* ================================================================ properties
Done(p) == proc[p].ppc = "done"

\* C1: once a parseOAuthState call on a token has returned a non-null result,
\* every call made later with that token returns null.
C1_NoReuseAfterAccept ==
    \A p \in Procs : Done(p) /\ proc[p].afterAccept => proc[p].result.kind = "null"

\* a call that was made after the token had been accepted has returned
C1_Witness ==
    \E p \in Procs : /\ Done(p) /\ proc[p].afterAccept
                      /\ proc[p].state.token \in Tokens
                      /\ acceptCount[proc[p].state.token] = 1

\* C2: of the parseOAuthState calls that run concurrently on one unexpired,
\* unconsumed token, however their findUnique and delete steps interleave,
\* at most one returns a non-null result.
C2_AtMostOneAccept ==
    \A t \in Tokens : acceptCount[t] <= 1

\* both calls read the record before either deleted it; one was accepted
C2_Witness ==
    \E t \in Tokens :
        /\ \A p \in Procs : /\ Done(p) /\ proc[p].state.token = t
                             /\ proc[p].stateRecord # {}
                             /\ ~proc[p].expiredAtCall /\ ~proc[p].afterAccept
        /\ \E p \in Procs : proc[p].result.kind = "value"
        /\ \E p \in Procs : proc[p].reason = "deletefail"

\* C5: parseOAuthState returns null whenever the stored expiry of the
\* state's record is earlier than the time of the call.
C5_ExpiredIsNull ==
    \A p \in Procs : Done(p) /\ proc[p].expiredAtCall => proc[p].result.kind = "null"

\* an expired record, present, never used before, right organization,
\* was read, deleted and turned down by the expiry check
C5_Witness ==
    \E p \in Procs :
        /\ Done(p) /\ proc[p].expiredAtCall /\ proc[p].reason = "expired"
        /\ proc[p].state.token \in Tokens /\ uses[proc[p].state.token] = 1
        /\ \A rec \in proc[p].stateRecord :
              rec.organizationId = proc[p].state.organizationId
        /\ proc[p].result.kind = "null"

\* a callback that is beyond its state check: verifying membership,
\* exchanging the code, saving, or finished with any other answer than the
\* rejection of its state
PastStateCheck(p) ==
    \/ proc[p].cpc = "membership"
    \/ proc[p].cpc = "done" /\ proc[p].outcome \notin {"missing_params", "invalid_state"}

\* C4 as stated: a callback goes beyond its state check, and writes, only
\* after parseOAuthState returned non-null for its state and only for the
\* organization that result names; with any other state it is rejected.
C4_OnlyAfterValidState ==
    \A p \in Procs :
        PastStateCheck(p) =>
            /\ Done(p) /\ proc[p].result.kind = "value"
            /\ proc[p].organizationId = proc[p].result.organizationId

\* C6 as stated: every redirect of a start route for organization A was
\* preceded by the insert of the OAuthState row for (A, platform), and the
\* state in its URL, presented unmodified within 15 minutes and to no other
\* call, is accepted with organization A.
C6_StartThenAccept ==
    /\ \A r \in redirects : r.persisted
    /\ \A p \in Procs, r \in redirects :
          ( /\ Done(p) /\ proc[p].state = r.state /\ proc[p].inTime
            /\ (proc[p].state.token \in Tokens => uses[proc[p].state.token] = 1) )
          => /\ proc[p].result.kind = "value"
             /\ proc[p].result.organizationId = r.organizationId

\* C3: createEvent, updateEvent and deleteEvent issue a network request only
\* if some connect returned success and no disconnect happened since;
\* otherwise createEvent and updateEvent return success=false with code
\* NOT_CONNECTED and retryable=false, and deleteEvent throws a not-connected
\* error, without any network request.
C3_RequestOnlyWhenConnected ==
    /\ last.op \in {"createEvent", "updateEvent", "updateEvent:patch",
                    "updateEvent:info", "deleteEvent"}
         => (last.result.requests > 0 => last.wasConnected = "connected")
    /\ last.op \in {"createEvent", "updateEvent"} /\ last.wasConnected # "connected"
         => last.result = NotConnected
    /\ last.op = "deleteEvent" /\ last.wasConnected # "connected"
         => last.result = Threw("NOT_CONNECTED", 0)

\* deleteEvent on an instance that was connected and then disconnected
C3_Witness ==
    /\ last.op = "deleteEvent" /\ last.wasConnected = "disconnected"
    /\ last.result.threw /\ last.result.requests = 0

\* the calls that C7 and C8 are about
Guarded == {"isConnected", "connect", "createEvent", "updateEvent",
            "updateEvent:patch", "updateEvent:info"}
Publishing == {"createEvent", "updateEvent", "updateEvent:patch", "updateEvent:info"}

\* the remote service failed the request: fetch threw, the status is not
\* 2xx, or the body is not valid JSON
RemoteFailed(answer) ==
    \/ answer.kind = "throws"
    \/ answer.kind = "response" /\ (~ok(answer) \/ answer.body = "invalid")

ParsesBody(platform, op, answer) ==
    \/ op = "connect"
    \/ op = "isConnected" /\ platform = "facebook"
    \/ op = "createEvent" /\ (platform = "linkedin" => ~answer.restliId)
    \/ op = "updateEvent:info"

\* the remote service failed the call: fetch threw, the call's own request
\* (not the follow-up GET of a Zoom update) was answered non-2xx, or a body
\* that the call parses is not valid JSON
RemoteFailedCall(platform, op, answer) ==
    \/ answer.kind = "throws"
    \/ answer.kind = "response" /\ ~ok(answer) /\ op # "updateEvent:info"
    \/ /\ answer.kind = "response" /\ ok(answer) /\ answer.body = "invalid"
       /\ ParsesBody(platform, op, answer)

C8_RetryableByStatus ==
    ( /\ last.op \in {"createEvent", "updateEvent"}
      /\ last.answer.kind = "response" /\ last.answer.status >= 400 )
    => /\ ~last.result.success
       /\ last.result.retryable = isRetryableErrorStatus(last.answer.status)

\* the row a save of `input` at time t leaves in an empty table, read back
AsIfOnly(version, input, t) ==
    getCredentials(version, saveCredentials(version, {}, input, 1, 1, t).table,
                   input.organizationId, input.platform)

\* C9 as stated: at most one row per (organizationId, platform), and after a
\* save the row of its pair reads back exactly as if that save had been the
\* only one: nothing of an earlier save remains.
C9_OneRowSecondWins ==
    /\ \A r1 \in platformCredential, r2 \in platformCredential :
          r1.organizationId = r2.organizationId /\ r1.platform = r2.platform => r1 = r2
    /\ lastSave.made =>
          getCredentials(credVersion, platformCredential,
                         lastSave.input.organizationId, lastSave.input.platform)
          = AsIfOnly(credVersion, lastSave.input, lastSave.at)

PlainTokens == {CredToken1, CredToken2, RefreshTok, ColonToken, CipherLike}

\* C10 as stated: every stored accessToken, and every stored refreshToken,
\* is ciphertext in the three-segment form and not a plaintext token.
C10_StoredEncrypted ==
    \A r \in platformCredential :
        /\ isEncrypted(r.accessToken) /\ r.accessToken \notin PlainTokens
        /\ r.refreshToken # Undefined =>
              isEncrypted(r.refreshToken) /\ r.refreshToken \notin PlainTokens
\* ------------------------------------------------ credential round trip
SavedPair == <<lastSave.input.organizationId, lastSave.input.platform>>
\* a getCredentials of the pair just saved, with nothing in between
GetAfterSave == lastSave.made /\ lastGet.made /\ lastGet.pair = SavedPair

\* C11: getCredentials called after saveCredentials of the same pair, with no
\* other write in between, does not fail and returns a row whose accessToken
\* is the accessToken passed to the save and whose refreshToken is the
\* refreshToken passed, for every token value including those with ':'.
C11_GetReturnsSaved ==
    GetAfterSave =>
        /\ ~lastGet.result.threw
        /\ lastGet.result.value # {}
        /\ \A g \in lastGet.result.value :
              /\ g.accessToken = lastSave.input.accessToken
              /\ lastSave.input.refreshToken # Undefined
                    => g.refreshToken = lastSave.input.refreshToken

\* C12 as stated: once the stored ciphertext of a row has been altered,
\* getCredentials of that row fails with the decryption error.
C12_CorruptedGetFails ==
    ( /\ credVersion = "encrypting"
      /\ lastGet.made
      /\ "altered" \in sinceSave[lastGet.pair]
      /\ RowsOf(platformCredential, lastGet.pair[1], lastGet.pair[2]) # {} )
    => lastGet.result.threw

\* a stored token that is plaintext as the revision without encryption wrote it
Legacy(value) ==
    /\ value # Undefined
    /\ \A i \in 1..Len(value) : value[i].kind = "text"

\* a getCredentials of the encrypting revision on a row nothing has damaged
GetIntact ==
    /\ credVersion = "encrypting"
    /\ lastGet.made
    /\ "altered" \notin sinceSave[lastGet.pair]

\* C13 as stated: getCredentials never fails on a row that holds a legacy
\* plaintext token, and returns every such token unchanged.
C13_LegacyNeverFails ==
    GetIntact =>
        \A r \in RowsOf(platformCredential, lastGet.pair[1], lastGet.pair[2]) :
            (Legacy(r.accessToken) \/ Legacy(r.refreshToken)) =>
                /\ ~lastGet.result.threw
                /\ \A g \in lastGet.result.value :
                      /\ Legacy(r.accessToken) => g.accessToken = r.accessToken
                      /\ Legacy(r.refreshToken) => g.refreshToken = r.refreshToken

\* a stored token the structural probe does not take for ciphertext
NotCipherLike(value) == value = Undefined \/ ~isEncrypted(value)

\* C13: getCredentials does not fail on a row whose legacy plaintext tokens
\* are not of the three-segment form with a 12-byte first and a 16-byte
\* third segment, and returns each of them unchanged; the tokens of a row
\* that saveCredentials has just written are returned decrypted.
C13_LegacyTolerated ==
    GetIntact =>
        /\ \A r \in RowsOf(platformCredential, lastGet.pair[1], lastGet.pair[2]) :
              ( /\ Legacy(r.accessToken) \/ Legacy(r.refreshToken)
                /\ Legacy(r.accessToken) => NotCipherLike(r.accessToken)
                /\ Legacy(r.refreshToken) => NotCipherLike(r.refreshToken) ) =>
                  /\ ~lastGet.result.threw
                  /\ \A g \in lastGet.result.value :
                        /\ Legacy(r.accessToken) => g.accessToken = r.accessToken
                        /\ Legacy(r.refreshToken) => g.refreshToken = r.refreshToken
        /\ GetAfterSave =>
              \A g \in lastGet.result.value :
                  g.accessToken = lastSave.input.accessToken

C13_Witness ==
    /\ GetIntact
    /\ ~lastGet.result.threw
    /\ \E r \in RowsOf(platformCredential, lastGet.pair[1], lastGet.pair[2]) :
          /\ r.accessToken = CredToken1
          /\ r.refreshToken = RefreshTok
          /\ r \in lastGet.result.value

\* C14: after a saveCredentials the row of its pair has isValid = true and
\* lastValidated = the time of the save, whatever isValid was before; a row
\* has isValid = false only if its pair was invalidated since its last save.
C14_SaveMarksValid ==
    /\ lastSave.made =>
          /\ RowsOf(platformCredential, SavedPair[1], SavedPair[2]) # {}
          /\ \A r \in RowsOf(platformCredential, SavedPair[1], SavedPair[2]) :
                r.isValid /\ r.lastValidated = lastSave.at
    /\ \A r \in platformCredential :
          (<<r.organizationId, r.platform>> \in Pairs /\ ~r.isValid)
              => "invalidated" \in sinceSave[<<r.organizationId, r.platform>>]

C14_Witness ==
    /\ lastSave.made
    /\ lastSave.wasInvalid
    /\ lastSave.at > 0
    /\ \A r \in RowsOf(platformCredential, SavedPair[1], SavedPair[2]) :
          r.isValid /\ r.lastValidated = lastSave.at
\* ------------------------------------------------------ adapter contracts
\* C15 as stated: once isConnected has returned false while the instance
\* held credentials, and until a connect succeeds, createEvent and
\* updateEvent return NOT_CONNECTED and send no request.
C15_RejectedIsDisconnected ==
    (rejected /\ last.op \in {"createEvent", "updateEvent", "updateEvent:patch"})
        => last.result = NotConnected

\* C16 as stated: a transformEvent call returns what the first
\* transformEvent call on the instance returned for the same event,
\* whatever was called in between.
C16_TransformIsPure ==
    (transformed.made /\ transformed.event = firstTransform.event)
        => transformed.out = firstTransform.out

\* C17 as stated: a title longer than the platform's maxTitleLength comes
\* out with exactly maxTitleLength units, ending in "...", beginning with
\* the first maxTitleLength - 3 units of the original and with no surrogate
\* pair cut in half; a title within the limit comes out unchanged.
C17_TitleTruncated ==
    transformed.made =>
        LET title == transformed.event.title
            out == transformed.out.title
            n == maxTitleLength(platformId)
        IN  IF Len(title) > n
            THEN /\ Len(out) = n
                 /\ SubSeq(out, n - 2, n) = Ellipsis
                 /\ SubSeq(out, 1, n - 3) = SubSeq(title, 1, n - 3)
                 /\ out[n - 3] # "H"
            ELSE out = title

\* C18 as stated: a deleteEvent on an instance that holds credentials, which
\* the platform answers with 404 (the event no longer exists), does not throw.
C18_DeleteGoneIsSafe ==
    ( /\ last.op = "deleteEvent"
      /\ last.answer.kind = "response"
      /\ last.answer.status = 404 )
        => ~last.result.threw
\* ------------------------------------------------- parseOAuthState errors
ParseFailures == {"malformed", "notfound", "deletefail", "expired", "mismatch", "storage"}

\* C19: a parseOAuthState call that has returned never left by an
\* exception, and returned null when the state did not decode or lacked a
\* field, the token was not in the store, the record had expired, the
\* organization did not match, or a storage call failed.
C19_ParseNeverThrows ==
    \A p \in Procs :
        Done(p) =>
            /\ proc[p].result.kind \in {"null", "value"}
            /\ proc[p].reason \in ParseFailures => proc[p].result = NullResult

C19_Witness ==
    \E p \in Procs :
        /\ Done(p) /\ proc[p].reason = "storage" /\ proc[p].stateRecord # {}
        /\ proc[p].result = NullResult
C21_AlteredFails ==
    (cipher.phase = "decrypted" /\ cipher.presented # cipher.encrypted)
        => cipher.decrypted.threw

\* ----------------------------------------------------------- local export
\* what the escaping of one character is to be
EscapedChar(c) ==
    CASE c = "\\" -> <<"\\", "\\">>
      [] c = ";" -> <<"\\", ";">>
      [] c = "," -> <<"\\", ",">>
      [] c = "\n" -> <<"\\", "n">>
      [] OTHER -> <<c>>
RECURSIVE EscapedEach(_)
EscapedEach(text) ==
    IF text = <<>> THEN <<>> ELSE EscapedChar(Head(text)) \o EscapedEach(Tail(text))

\* reading an escaped text back: a backslash and the character after it
\* stand for that character, for a newline when it is n
RECURSIVE unescapeICS(_)
unescapeICS(text) ==
    IF text = <<>> THEN <<>>
    ELSE IF Head(text) = "\\" /\ Len(text) >= 2
    THEN <<IF text[2] = "n" THEN "\n" ELSE text[2]>> \o unescapeICS(Tail(Tail(text)))
    ELSE <<Head(text)>> \o unescapeICS(Tail(text))

\* C22: the escaped title in the SUMMARY line is the title with every
\* backslash as two backslashes and every ';', ',' and newline as one
\* backslash and ';', ',' or 'n', nothing escaped twice, and unescaping it
\* gives the title back.
C22_EscapeICS ==
    ics.phase = "generated" =>
        /\ ics.lines.summary = <<"SUMMARY:">> \o EscapedEach(ics.event.title)
        /\ unescapeICS(Tail(ics.lines.summary)) = ics.event.title

C22_Witness ==
    /\ ics.phase = "generated"
    /\ ics.event.title = <<"\\", ";", "\n">>
    /\ ics.lines.summary = <<"SUMMARY:", "\\", "\\", "\\", ";", "\\", "n">>

\* the wall-clock time of an instant in a zone, as YYYYMMDDTHHMMSS
WallClock(date, zone) ==
    << "2025", "03", TwoDigits(1 + ((date + utcOffset(zone)) \div 24)), "T",
       TwoDigits((date + utcOffset(zone)) % 24), "00", "00" >>

\* C23 as stated: the DTSTART line gives, after the TZID parameter, the
\* start as wall-clock time in the event's timezone, YYYYMMDDTHHMMSS.
C23_WallClockStart ==
    ics.phase = "generated" =>
        ics.lines.dtstart = <<"DTSTART;TZID=", ics.event.timezone, ":">>
                                \o WallClock(ics.event.startTime, ics.event.timezone)

\* ------------------------------------------------------ OAuth configuration
Unconfigured(platform) == ~env[platform].id \/ ~env[platform].secret

\* C24 as stated: while a platform's client id or client secret is not set,
\* no OAuthState is persisted for it, no redirect to the provider is issued
\* and no token request is sent.
C24_UnconfiguredFails ==
    \A platform \in {"facebook", "linkedin"} :
        Unconfigured(platform) =>
            /\ \A r \in redirects : r.platform # platform
            /\ \A r \in oAuthState : r.platform # platform
            /\ \A p \in Procs : proc[p].kind = platform => ~proc[p].tokenRequest.sent

\* ------------------------------------------------------- one-time use
\* C25 as stated: when a parseOAuthState call that found the record of its
\* token has returned, with any result, no record of that token is in the
\* store; and a call that presents a state on which an earlier call had
\* returned null does not return a value.
C25_FoundIsConsumed ==
    \A p \in Procs :
        /\ (proc[p].ppc = "done" /\ proc[p].stateRecord # {})
              => \A r \in oAuthState : r.token # proc[p].state.token
        /\ (proc[p].ppc = "done" /\ proc[p].afterFail)
              => proc[p].result.kind = "null"

\* --------------------------------------------------------- connect's frame
\* C26: a connect call that returns success = false (a key is missing, the
\* platform rejects the credentials, or the request throws) leaves the
\* stored credentials and the connection state as they were.
C26_FailedConnectKeeps ==
    [][ (last'.op = "connect" /\ ~last'.result.success)
            => /\ credentials' = credentials
               /\ connected' = connected
               /\ ~last'.result.threw ]_vars

C26_Witness ==
    /\ last.op = "connect" /\ ~last.result.success
    /\ last.answer.kind = "response" /\ last.answer.status = 400
    /\ last.wasConnected = "connected"
    /\ connected = "connected" /\ credentials # NullCredentials

\* ------------------------------------------------------ description limits
\* C27 as stated: on every adapter the description that transformEvent
\* returns is no longer than the platform's maxDescriptionLength.
C27_DescriptionWithinLimit ==
    desc.phase = "transformed"
        => Len(desc.out) <= maxDescriptionLength(desc.platform)

\* ------------------------------------------------------- state and platform
\* C28 as stated: a callback goes beyond its state check only with a state
\* whose record was issued for the platform of that callback; with the state
\* of another platform it is rejected and saves nothing.
C28_StateBoundToPlatform ==
    \A p \in Procs :
        (proc[p].kind \in OAuthPlatforms /\ PastStateCheck(p))
            => \A rec \in proc[p].stateRecord : rec.platform = proc[p].kind

\* ------------------------------------------------------ Zoom update result
\* C29 as stated: a Zoom updateEvent whose PATCH the platform accepted
\* returns success = true, whatever the follow-up GET does; a failure that
\* is retryable comes only from an updateEvent whose PATCH was not accepted.
C29_PatchAcceptedIsSuccess ==
    /\ last.op = "updateEvent:info" => last.result.success
    /\ ( /\ platformId = "zoom-meeting"
         /\ last.op \in {"updateEvent", "updateEvent:info"}
         /\ ~last.result.threw /\ ~last.result.success /\ last.result.retryable )
            => last.op = "updateEvent"

\* ------------------------------------------------------ publication results
\* C30 as stated: a result of createEvent or updateEvent has success = true
\* exactly when it has no error; with success = true it has a defined,
\* non-empty externalId and a publicationId made of it; with success = false
\* it has an error with code, message, timestamp and retryable and neither
\* externalId nor externalUrl.
C30_ResultWellFormed ==
    (last.op \in {"createEvent", "updateEvent", "updateEvent:info"} /\ ~last.result.threw)
        => LET pr == PublicationResult(platformId, last.op, last.answer, last.result)
           IN  /\ pr.success <=> pr.error = {}
               /\ pr.success =>
                     /\ pr.externalId \notin {"undefined", ""}
                     /\ pr.publicationId = <<IdPrefix(platformId), pr.externalId>>
               /\ ~pr.success =>
                     /\ pr.error = {"code", "message", "timestamp", "retryable"}
                     /\ pr.externalId = "undefined"
                     /\ pr.externalUrl = "undefined"
====
